---- MODULE Spec2Model ----
(***************************************************************************)
(* Contract template extraction, placeholder substitution, response        *)
(* sanitising and contract comparison of the Contract_Generation           *)
(* repository.                                                             *)
(*                                                                         *)
(* Text is modelled as a sequence of one-character strings.  An optional   *)
(* (JSON null / Python None) value v is None == <<>> or Some(v) == <<v>>.  *)
(***************************************************************************)
EXTENDS Integers, Sequences, FiniteSets, TLC

(***************************************************************************)
(* Bounds of the model.                                                    *)
(***************************************************************************)
\* longest template, counted in segments (a static character or a token)
MaxSegs == 2
\* most entries of a Placeholders mapping
MaxPlaceholders == 2
\* longest body between the fences of a backend answer, in characters
MaxBody == 2
\* most difference records in a comparison answer
MaxRecords == 2
None == <<>>
Some(v) == <<v>>

(***************************************************************************)
(* Python string and list primitives.                                      *)
(***************************************************************************)
StartsWith(s, p) == Len(s) >= Len(p) /\ SubSeq(s, 1, Len(p)) = p

EndsWith(s, p) == Len(s) >= Len(p) /\ SubSeq(s, Len(s) - Len(p) + 1, Len(s)) = p

\* str.replace(old, new): every non-overlapping occurrence of old, found
\* left to right, is replaced by new; text inserted is not scanned again.
\* For an empty old, new is inserted before every character and at the end.
RECURSIVE Replace(_, _, _)
Replace(s, old, new) ==
    IF old = <<>>
    THEN IF s = <<>> THEN new ELSE new \o <<Head(s)>> \o Replace(Tail(s), old, new)
    ELSE IF Len(s) < Len(old) THEN s
    ELSE IF StartsWith(s, old)
         THEN new \o Replace(SubSeq(s, Len(old) + 1, Len(s)), old, new)
         ELSE <<Head(s)>> \o Replace(Tail(s), old, new)

\* number of occurrences str.replace(old, ...) replaces in s
RECURSIVE CountOcc(_, _)
CountOcc(s, old) ==
    IF old = <<>> THEN Len(s) + 1
    ELSE IF Len(s) < Len(old) THEN 0
    ELSE IF StartsWith(s, old)
         THEN 1 + CountOcc(SubSeq(s, Len(old) + 1, Len(s)), old)
         ELSE CountOcc(Tail(s), old)

\* one step of a stable descending sort: k goes behind every element that
\* is at least as long
RECURSIVE InsertByLen(_, _)
InsertByLen(k, sorted) ==
    IF sorted = <<>> THEN <<k>>
    ELSE IF Len(Head(sorted)) >= Len(k)
         THEN <<Head(sorted)>> \o InsertByLen(k, Tail(sorted))
         ELSE <<k>> \o sorted

\* the keys as they come, unsorted
InsertionOrder(keys) == keys

\* sorted(keys, key=len, reverse=True): descending length, and keys of equal
\* length keep their order in keys (the sort is stable, also when reversed)
RECURSIVE SortedByLenReverse(_)
SortedByLenReverse(keys) ==
    IF keys = <<>> THEN <<>>
    ELSE InsertByLen(keys[Len(keys)],
                     SortedByLenReverse(SubSeq(keys, 1, Len(keys) - 1)))


(***************************************************************************)
(* The data the model ranges over.                                         *)
(***************************************************************************)
\* placeholder names: two of equal length, and one that contains both
PlaceholderNames == {<<"A">>, <<"B">>, <<"A", "B">>}

\* characters of the static prose of a template: prose may spell a name
StaticChars == {"A"}

\* a segment of a template as the extraction wrote it: one character of
\* static prose, or a placeholder token
Static(c) == [token |-> FALSE, text |-> <<c>>]
Token(n) == [token |-> TRUE, text |-> n]
Segments == {Static(c) : c \in StaticChars} \cup {Token(n) : n \in PlaceholderNames}

RECURSIVE SeqsUpTo(_, _)
SeqsUpTo(S, n) ==
    IF n = 0 THEN {<<>>}
    ELSE LET shorter == SeqsUpTo(S, n - 1)
         IN  shorter \cup {Append(q, e) : q \in {r \in shorter : Len(r) = n - 1}, e \in S}

\* template_text of a segment sequence
RECURSIVE TemplateText(_)
TemplateText(segs) ==
    IF segs = <<>> THEN <<>> ELSE Head(segs).text \o TemplateText(Tail(segs))

\* the value of a Placeholders entry: a JSON object with or without the key
\* original_value (a string or null), or a JSON value that is no object
NotADict == [isdict |-> FALSE, has_original_value |-> FALSE, original_value |-> None]
Details(has, v) == [isdict |-> TRUE, has_original_value |-> has, original_value |-> v]
\* the entries the model ranges over are objects: without original_value, with
\* a null one, and with the string "x"
PlaceholderDetails ==
    {Details(FALSE, None), Details(TRUE, None), Details(TRUE, Some(<<"x">>))}

\* the str() of a Placeholders entry that is no object (a JSON string "x")
StrOfNotADict == <<"x">>

Entry(n, d) == [name |-> n, details |-> d]

\* a Placeholders mapping keeps its insertion order: a sequence of entries
\* with distinct names
PlaceholderMappings ==
    {m \in SeqsUpTo({Entry(n, d) : n \in PlaceholderNames, d \in PlaceholderDetails},
                    MaxPlaceholders) :
        \A i, j \in 1..Len(m) : i # j => m[i].name # m[j].name}

\* dict.keys(), in insertion order
RECURSIVE Keys(_)
Keys(m) == IF m = <<>> THEN <<>> ELSE <<Head(m).name>> \o Keys(Tail(m))

KeySet(m) == {m[i].name : i \in 1..Len(m)}

\* dict.get(key): the entry's value, None when the key is missing
Get(m, key) ==
    IF key \in KeySet(m)
    THEN Some((CHOOSE e \in {m[i] : i \in 1..Len(m)} : e.name = key).details)
    ELSE None

\* what json.loads makes of a template file or an extraction response
JsonObject(t, p) == [isobject |-> TRUE, Template |-> t, Placeholders |-> p]
JsonArray == [isobject |-> FALSE, Template |-> None, Placeholders |-> None]

\* the values a request carries: names to strings, None for a name without an
\* entry (or with a null one)
UserStrings == {<<>>, <<"B">>}
NoValues == [n \in PlaceholderNames |-> None]
UserValueSets ==
    {NoValues} \cup {[NoValues EXCEPT ![n] = Some(s)] : n \in PlaceholderNames,
                                                       s \in UserStrings}

Filenames == {"a.pdf"}


(***************************************************************************)
(* State.                                                                  *)
(***************************************************************************)
VARIABLES
    extraction,   \* per uploaded document: what text extraction and the
                  \* generation backend (temperature 0) make of it
    templates,    \* ./Contract_templates/<filename>.json: None, or Some(json)
    response,     \* the answer of the last operation, Idle once it is read
    result_str,   \* what the generation backend answered: None, or Some(text)
    cleaned_result_str,  \* None, or Some(text) once the answer is sanitised
    llm_response,        \* what the backend answers to a comparison request
    comparison_results,  \* what compare_contracts_with_llm returned
    report,              \* the comparison report, once it is rendered
    job_storage,         \* compare_main.py: job id -> None, or Some(job)
    job_result,          \* how the last comparison request or run ended
    data_response,       \* what GET /comparison-data answered last
    template_file,       \* one file of ./Contract_templates, as the processes see it
    pc,                  \* where each process stands in writing or reading it
    loaded               \* what each process got from its last read of it

vars == <<extraction, templates, response, result_str, cleaned_result_str,
          llm_response, comparison_results, report, job_storage, job_result,
          data_response, template_file, pc, loaded>>

\* the state of the template pipeline and the state of a comparison
template_vars == <<extraction, templates, response, result_str, cleaned_result_str>>
compare_vars == <<llm_response, comparison_results, report>>
job_vars == <<job_storage, job_result, data_response>>
store_vars == <<template_file, pc, loaded>>

\* what the pipeline makes of a document: no text, a backend failure, a
\* response that is no JSON, or JSON; segs is how the backend composed the
\* Template string (the code only ever sees its text)
Extraction(o, j, s) == [outcome |-> o, json |-> j, segs |-> s]

ExtractedTemplates ==
    {Extraction("json", JsonObject(Some(TemplateText(s)), Some(m)), s) :
        s \in SeqsUpTo(Segments, MaxSegs), m \in PlaceholderMappings}

MalformedExtractions ==
    { Extraction("empty_text", JsonArray, <<>>),
      Extraction("backend_raises", JsonArray, <<>>),
      Extraction("not_json", JsonArray, <<>>),
      Extraction("json", JsonArray, <<>>),
      Extraction("json", JsonObject(None, Some(<<>>)), <<>>),
      Extraction("json", JsonObject(Some(<<"A">>), None), <<Static("A")>>) }

Extractions == ExtractedTemplates \cup MalformedExtractions

\* the body of a request: a JSON string that is blank, does not parse, parses
\* to something that is no object, or parses to the object values
Payload(k, v) == [kind |-> k, values |-> v]
Payloads ==
    {Payload("dict", v) : v \in UserValueSets}
        \cup {Payload(k, NoValues) : k \in {"blank", "invalid", "nondict"}}

\* one replacement pass: the name, the text put in its place, and how many
\* occurrences the pass found in its working text
Pass(n, v, h) == [name |-> n, value |-> v, hits |-> h]

\* an answer: the operation, its status (an HTTP status, or "success" and
\* "error" of a Streamlit handler), the text it returns, the filled plain text
\* it computed, the passes of its fill loop and the request it answers
Response(op, filename, status, body, filled, passes, payload) ==
    [op |-> op, filename |-> filename, status |-> status, body |-> body,
     filled |-> filled, passes |-> passes, payload |-> payload]

Idle == Response("none", "", "none", None, None, <<>>, Payload("blank", NoValues))

Failure(op, filename, status, payload) ==
    Response(op, filename, status, None, None, <<>>, payload)

\* the value json.loads gives for the text of a comparison answer: nothing
\* (an empty text), no JSON, an array of items, one object, or a scalar
Content(k, i) == [kind |-> k, items |-> i]

\* the backend's part in a comparison: no request yet, no API key, an
\* exception, or a text, possibly inside a fence pair
LlmResponse(o, w, c) == [outcome |-> o, wrapper |-> w, content |-> c]
NoRequest == LlmResponse("none", "none", Content("empty", <<>>))

\* what compare_contracts_with_llm returns: None, or a list
Results(k, i) == [kind |-> k, items |-> i]
Pending == Results("pending", <<>>)
NoValidData == Results("none", <<>>)
ListOf(i) == Results("list", i)

\* a rendered report: who rendered it, its notice, and its table rows
Report(by, notice, rows) == [by |-> by, notice |-> notice, rows |-> rows]
NoReport == Report("none", "none", <<>>)

\* the job ids the service hands out
JobIds == {"job-1"}

\* how a comparison request or run ended: the entry point, its outcome (an
\* HTTP status or an exit), the job it created, what it did (run), what it
\* told the caller, and the documents it was given
JobResult(op, status, job_id, run, message, files) ==
    [op |-> op, status |-> status, job_id |-> job_id, run |-> run,
     message |-> message, files |-> files]

\* what a request did: the files it saved, the texts it extracted, whether
\* the backend was called, the prompt variables it was given, the labels
\* of the documents, and what compare_contracts_with_llm met
Run(saved, texts, called, chain_input, labels, answer) ==
    [saved |-> saved, contract_texts |-> texts, called |-> called,
     chain_input |-> chain_input, contract_labels |-> labels, answer |-> answer]
NoRun == Run(0, <<>>, FALSE, <<>>, <<>>, NoRequest)

\* what a handler tells: the kind of message and the documents it names
Message(k, n) == [kind |-> k, failed |-> n]

NoJobResult == JobResult("none", "none", None, NoRun, Message("none", <<>>), <<>>)

\* the answer of GET /comparison-data: its status, and the labels and the
\* data of a 200
DataResponse(status, job_id, labels, data) ==
    [status |-> status, job_id |-> job_id, contract_labels |-> labels,
     comparison_data |-> data]
NoDataResponse == DataResponse("none", None, <<>>, NoValidData)

\* the processes that share ./Contract_templates: the service of main.py,
\* whose handlers run one at a time, and a session of contract_generator_ui.py
Procs == {"api", "ui"}

\* what a writer dumps into the file
Versions == {"v1", "v2"}

\* the file of one source filename: its content (absent, truncated by an
\* open for writing, a whole JSON document, or garbled), and the processes
\* that hold it open for writing
TemplateFile(content, writers) == [content |-> content, writers |-> writers]

\* a process between two steps: at rest, between open(path, 'w') and the
\* end of json.dump with the data it dumps, or between os.path.exists and
\* the read
At(at, data) == [at |-> at, data |-> data]
AtRest == At("idle", "none")

NoStore ==
    /\ template_file = TemplateFile("absent", {})
    /\ pc = [p \in Procs |-> AtRest]
    /\ loaded = [p \in Procs |-> "none"]

NoJobs ==
    /\ job_storage = [j \in JobIds |-> None]
    /\ job_result = NoJobResult
    /\ data_response = NoDataResponse
    /\ NoStore

NoComparison ==
    /\ llm_response = NoRequest
    /\ comparison_results = Pending
    /\ report = NoReport
    /\ NoJobs

NoTemplates ==
    /\ extraction = [f \in Filenames |-> Extraction("not_json", JsonArray, <<>>)]
    /\ templates = [f \in Filenames |-> None]
    /\ response = Idle
    /\ result_str = None
    /\ cleaned_result_str = None

Init ==
    /\ extraction \in [Filenames -> Extractions]
    /\ templates = [f \in Filenames |-> None]
    /\ response = Idle
    /\ result_str = None
    /\ cleaned_result_str = None
    /\ NoComparison

(***************************************************************************)
(* The substitution engine of main.py.                                     *)
(***************************************************************************)
\* the passes of a fill loop over keys, vals[i] replacing keys[i]
RECURSIVE ApplyPasses(_, _, _)
ApplyPasses(text, keys, vals) ==
    IF keys = <<>> THEN text
    ELSE ApplyPasses(Replace(text, Head(keys), Head(vals)), Tail(keys), Tail(vals))

RECURSIVE PassLog(_, _, _)
PassLog(text, keys, vals) ==
    IF keys = <<>> THEN <<>>
    ELSE <<Pass(Head(keys), Head(vals), CountOcc(text, Head(keys)))>>
            \o PassLog(Replace(text, Head(keys), Head(vals)), Tail(keys), Tail(vals))

\* details_dict.get('original_value') of an entry value that is a dict
OriginalValue(details_dict) ==
    IF details_dict # None /\ details_dict[1].isdict
    THEN details_dict[1].original_value
    ELSE None

\* a user value is taken only when it is truthy: "" falls through
replacement_value_if_truthy(placeholder_key, details_dict, user_value) ==
    IF user_value # None /\ user_value[1] # <<>> THEN user_value[1]
    ELSE IF OriginalValue(details_dict) # None THEN OriginalValue(details_dict)[1]
    ELSE placeholder_key

\* generate_filled_contract: the replacement text of one placeholder
replacement_value(placeholder_key, details_dict, user_value) ==
    IF user_value # None THEN user_value[1]
    ELSE IF OriginalValue(details_dict) # None THEN OriginalValue(details_dict)[1]
    ELSE placeholder_key

\* generate_styled_html_document_endpoint: the replacement text of one
\* placeholder
replacement_value_str(placeholder_key, details_dict, user_value) ==
    IF user_value # None THEN user_value[1]
    ELSE IF OriginalValue(details_dict) # None THEN OriginalValue(details_dict)[1]
    ELSE <<>>

sorted_placeholder_keys(extracted_placeholders_details) ==
    SortedByLenReverse(Keys(extracted_placeholders_details))

all_placeholder_keys(placeholders_details_from_json) ==
    SortedByLenReverse(Keys(placeholders_details_from_json))

RECURSIVE FilledValues(_, _, _)
FilledValues(keys, details, user_provided_values) ==
    IF keys = <<>> THEN <<>>
    ELSE <<replacement_value(Head(keys), Get(details, Head(keys)),
                             user_provided_values[Head(keys)])>>
            \o FilledValues(Tail(keys), details, user_provided_values)

\* generate_filled_contract: final_text for a template text, its Placeholders
\* and the values of the request
final_text(template_text, extracted_placeholders_details, user_provided_values) ==
    LET keys == sorted_placeholder_keys(extracted_placeholders_details)
    IN  ApplyPasses(template_text, keys,
                    FilledValues(keys, extracted_placeholders_details,
                                 user_provided_values))

RECURSIVE StyledValues(_, _, _)
StyledValues(keys, details, user_values_for_filling) ==
    IF keys = <<>> THEN <<>>
    ELSE <<replacement_value_str(Head(keys), Get(details, Head(keys)),
                                 user_values_for_filling[Head(keys)])>>
            \o StyledValues(Tail(keys), details, user_values_for_filling)


(***************************************************************************)
(* main.py: the FastAPI handlers.                                          *)
(***************************************************************************)
\* POST /contract_template/
process_document_to_template(f) ==
    /\ response = Idle
    /\ LET e == extraction[f]
           op == "process_document_to_template"
       IN  CASE e.outcome = "empty_text" ->
                    /\ response' = Failure(op, f, "400", Payload("blank", NoValues))
                    /\ UNCHANGED templates
             [] e.outcome = "backend_raises" ->
                    /\ response' = Failure(op, f, "500", Payload("blank", NoValues))
                    /\ UNCHANGED templates
             [] e.outcome = "not_json" ->
                    /\ response' = Failure(op, f, "500", Payload("blank", NoValues))
                    /\ UNCHANGED templates
             [] e.outcome = "json" ->
                    /\ templates' = [templates EXCEPT ![f] = Some(e.json)]
                    /\ response' = Response(op, f, "200", None, None, <<>>,
                                            Payload("blank", NoValues))
    /\ UNCHANGED <<extraction, result_str, cleaned_result_str, compare_vars, job_vars, store_vars>>

\* the template file of a request is read and holds a non-empty Template and
\* a Placeholders dict
UsableTemplate(template_data) ==
    /\ template_data.isobject
    /\ template_data.Template # None
    /\ template_data.Template # Some(<<>>)
    /\ template_data.Placeholders # None

\* json.loads of the request's values: {} for a blank string
ParsedValues(payload) == IF payload.kind = "dict" THEN payload.values ELSE NoValues

\* a handler that fills the stored template in place: it writes the filled
\* text back to the template file
generate_filled_contract_in_place(f, payload) ==
    /\ response = Idle
    /\ templates[f] # None
    /\ UsableTemplate(templates[f][1])
    /\ payload.kind \in {"dict", "blank"}
    /\ LET template_data == templates[f][1]
           keys == sorted_placeholder_keys(template_data.Placeholders[1])
           vals == FilledValues(keys, template_data.Placeholders[1], ParsedValues(payload))
           text == ApplyPasses(template_data.Template[1], keys, vals)
       IN  /\ response' = Response("generate_filled_contract", f, "200", Some(text),
                                   Some(text),
                                   PassLog(template_data.Template[1], keys, vals), payload)
           /\ templates' = [templates EXCEPT
                               ![f] = Some(JsonObject(Some(text),
                                                      template_data.Placeholders))]
    /\ UNCHANGED <<extraction, result_str, cleaned_result_str, compare_vars, job_vars, store_vars>>

\* POST /generate_contract/
generate_filled_contract(f, payload) ==
    /\ response = Idle
    /\ LET op == "generate_filled_contract" IN
       IF templates[f] = None
       THEN response' = Failure(op, f, "404", payload)
       ELSE LET template_data == templates[f][1] IN
            IF ~UsableTemplate(template_data)
            THEN response' = Failure(op, f, "500", payload)
            ELSE IF payload.kind \in {"invalid", "nondict"}
            THEN response' = Failure(op, f, "400", payload)
            ELSE LET template_text == template_data.Template[1]
                     extracted_placeholders_details == template_data.Placeholders[1]
                     user_provided_values == ParsedValues(payload)
                     keys == sorted_placeholder_keys(extracted_placeholders_details)
                     vals == FilledValues(keys, extracted_placeholders_details,
                                          user_provided_values)
                     text == final_text(template_text, extracted_placeholders_details,
                                        user_provided_values)
                 IN  response' = Response(op, f, "200", Some(text), Some(text),
                                          PassLog(template_text, keys, vals), payload)
    /\ UNCHANGED <<extraction, templates, result_str, cleaned_result_str, compare_vars, job_vars, store_vars>>

\* what format_text_to_html_with_llm does with the filled text: it returns a
\* non-empty HTML document (the backend's, or its own fallback), or raises
StylingOutcomes == {"html", "raises"}

\* the HTML document the styling backend returns (its content is opaque)
StyledHtml == <<"<html>">>

\* POST /generate_styled_html_document/
generate_styled_html_document_endpoint(f, payload, styling) ==
    /\ response = Idle
    /\ LET op == "generate_styled_html_document_endpoint" IN
       IF templates[f] = None
       THEN response' = Failure(op, f, "404", payload)
       ELSE LET template_data_from_json == templates[f][1] IN
            IF ~UsableTemplate(template_data_from_json)
            THEN response' = Failure(op, f, "500", payload)
            ELSE IF payload.kind = "invalid"
            THEN response' = Failure(op, f, "400", payload)
            ELSE LET plain_text_template_from_json == template_data_from_json.Template[1]
                     placeholders_details_from_json ==
                         template_data_from_json.Placeholders[1]
                     user_values_for_filling == ParsedValues(payload)
                     keys == all_placeholder_keys(placeholders_details_from_json)
                     vals == StyledValues(keys, placeholders_details_from_json,
                                          user_values_for_filling)
                     filled_plain_text ==
                         ApplyPasses(plain_text_template_from_json, keys, vals)
                     passes == PassLog(plain_text_template_from_json, keys, vals)
                 IN  IF styling = "html"
                     THEN response' = Response(op, f, "200", Some(StyledHtml),
                                               Some(filled_plain_text), passes, payload)
                     ELSE response' = Response(op, f, "500", None,
                                               Some(filled_plain_text), passes, payload)
    /\ UNCHANGED <<extraction, templates, result_str, cleaned_result_str, compare_vars, job_vars, store_vars>>

(***************************************************************************)
(* contract_generator_ui.py: the Streamlit generator.                      *)
(***************************************************************************)
\* the session state after "Load Existing Template": parsed["Template"] and
\* parsed["Placeholders"] are there, and steps 3 and 4 are shown for a
\* non-empty Placeholders dict
SessionLoaded(parsed) ==
    /\ parsed.isobject
    /\ parsed.Template # None
    /\ parsed.Placeholders # None
    /\ parsed.Placeholders # Some(<<>>)

\* the text of an input field: what the user typed, "" for an untouched field
FieldText(payload, key) ==
    IF payload.values[key] # None THEN payload.values[key][1] ELSE <<>>

\* "Generate Plain Text Contract": the replacement of one key, None when
\* placeholder_data.get("original_value", key) finds a null
ui_replacement_value(key, placeholder_data, user_value) ==
    IF user_value # <<>> THEN Some(user_value)
    ELSE IF placeholder_data.isdict
         THEN IF placeholder_data.has_original_value
              THEN placeholder_data.original_value
              ELSE Some(key)
         ELSE Some(key)

ui_sorted_keys(contract_placeholders) == SortedByLenReverse(Keys(contract_placeholders))

RECURSIVE UiValues(_, _, _)
UiValues(keys, contract_placeholders, payload) ==
    IF keys = <<>> THEN <<>>
    ELSE <<ui_replacement_value(Head(keys), Get(contract_placeholders, Head(keys))[1],
                                FieldText(payload, Head(keys)))>>
            \o UiValues(Tail(keys), contract_placeholders, payload)

\* the strings of a sequence of Some(string)
RECURSIVE Strings(_)
Strings(opts) == IF opts = <<>> THEN <<>> ELSE <<Head(opts)[1]>> \o Strings(Tail(opts))

\* str.replace raises TypeError for a replacement that is None
AllStrings(opts) == \A i \in 1..Len(opts) : opts[i] # None

generate_plain_text_contract(f, payload) ==
    /\ response = Idle
    /\ payload.kind = "dict"
    /\ templates[f] # None
    /\ SessionLoaded(templates[f][1])
    /\ LET op == "generate_plain_text_contract"
           contract_template == templates[f][1].Template[1]
           contract_placeholders == templates[f][1].Placeholders[1]
           sorted_keys == ui_sorted_keys(contract_placeholders)
           vals == UiValues(sorted_keys, contract_placeholders, payload)
       IN  IF AllStrings(vals)
           THEN LET final_output == ApplyPasses(contract_template, sorted_keys, Strings(vals))
                IN  response' = Response(op, f, "success", Some(final_output),
                                         Some(final_output),
                                         PassLog(contract_template, sorted_keys,
                                                 Strings(vals)),
                                         payload)
           ELSE response' = Failure(op, f, "error", payload)
    /\ UNCHANGED <<extraction, templates, result_str, cleaned_result_str, compare_vars, job_vars, store_vars>>

(***************************************************************************)
(* contract_generation_enhanced.py and its Streamlit front end.            *)
(***************************************************************************)
\* a value of placeholders_dict: a dict with the key value or original_value
\* (a string or None), or something else
Info(isdict, has_value, value, has_original_value, original_value) ==
    [isdict |-> isdict, has_value |-> has_value, value |-> value,
     has_original_value |-> has_original_value, original_value |-> original_value]

ValueInfo(v) == Info(TRUE, TRUE, v, FALSE, None)

\* str(placeholder_info) of a value with neither key
StrOfInfo(placeholder_info) == IF placeholder_info.isdict THEN <<"{}">> ELSE StrOfNotADict

\* generate_contract_from_template: the replacement of one placeholder
enhanced_replacement_value(placeholder_info) ==
    IF placeholder_info.isdict /\ placeholder_info.has_value
    THEN placeholder_info.value
    ELSE IF placeholder_info.isdict /\ placeholder_info.has_original_value
    THEN placeholder_info.original_value
    ELSE Some(StrOfInfo(placeholder_info))

\* the order of the passes of generate_contract_from_template:
\* placeholders_dict.items(), the insertion order
items_order(placeholders_dict) == Keys(placeholders_dict)

RECURSIVE EnhancedValues(_, _)
EnhancedValues(keys, placeholders_dict) ==
    IF keys = <<>> THEN <<>>
    ELSE <<enhanced_replacement_value(Get(placeholders_dict, Head(keys))[1])>>
            \o EnhancedValues(Tail(keys), placeholders_dict)

\* generate_contract_from_template(template, placeholders_dict): the final
\* contract and its passes, or raised when a replacement is no string
generate_contract_from_template(template, placeholders_dict) ==
    LET keys == items_order(placeholders_dict)
        vals == EnhancedValues(keys, placeholders_dict)
    IN  IF AllStrings(vals)
        THEN [raised |-> FALSE,
              final_contract |-> ApplyPasses(template, keys, Strings(vals)),
              passes |-> PassLog(template, keys, Strings(vals))]
        ELSE [raised |-> TRUE, final_contract |-> <<>>, passes |-> <<>>]

\* enhanced_contract_gen_ui.py: the initial user_placeholder_values entry
DefaultValue(v) ==
    IF v.isdict
    THEN IF v.has_original_value THEN v.original_value ELSE Some(<<>>)
    ELSE Some(StrOfNotADict)

\* placeholders_for_generation: {k: {"value": v}}, in the order of Placeholders
RECURSIVE placeholders_for_generation(_, _)
placeholders_for_generation(contract_placeholders, payload) ==
    IF contract_placeholders = <<>> THEN <<>>
    ELSE LET k == Head(contract_placeholders).name
             v == IF payload.values[k] # None
                  THEN payload.values[k]
                  ELSE DefaultValue(Head(contract_placeholders).details)
         IN  <<Entry(k, ValueInfo(v))>>
                \o placeholders_for_generation(Tail(contract_placeholders), payload)

\* the form of step 2 is drawn: len(original_value) raises for a null
FormDrawn(contract_placeholders) ==
    \A i \in 1..Len(contract_placeholders) :
        DefaultValue(contract_placeholders[i].details) # None

\* "Generate Contract" of the enhanced front end, on the template it
\* extracted itself
enhanced_generate_contract(f, payload) ==
    /\ response = Idle
    /\ payload.kind = "dict"
    /\ extraction[f].outcome = "json"
    /\ SessionLoaded(extraction[f].json)
    /\ FormDrawn(extraction[f].json.Placeholders[1])
    /\ LET op == "generate_contract_from_template"
           r == generate_contract_from_template(
                    extraction[f].json.Template[1],
                    placeholders_for_generation(extraction[f].json.Placeholders[1],
                                                payload))
       IN  IF r.raised
           THEN response' = Failure(op, f, "error", payload)
           ELSE response' = Response(op, f, "success", Some(r.final_contract),
                                     Some(r.final_contract), r.passes, payload)
    /\ UNCHANGED <<extraction, templates, result_str, cleaned_result_str, compare_vars, job_vars, store_vars>>

\* the caller reads the answer
Receive ==
    /\ response # Idle
    /\ response' = Idle
    /\ UNCHANGED <<extraction, templates, result_str, cleaned_result_str, compare_vars, job_vars, store_vars>>

Next ==
    \/ \E f \in Filenames : process_document_to_template(f)
    \/ \E f \in Filenames, payload \in Payloads : generate_filled_contract(f, payload)
    \/ \E f \in Filenames, payload \in Payloads, styling \in StylingOutcomes :
          generate_styled_html_document_endpoint(f, payload, styling)
    \/ \E f \in Filenames, payload \in Payloads : generate_plain_text_contract(f, payload)
    \/ \E f \in Filenames, payload \in Payloads : enhanced_generate_contract(f, payload)
    \/ Receive

Spec == Init /\ [][Next]_vars


(***************************************************************************)
(* Contract_generation.py: sanitising the answer of the generation backend.*)
(***************************************************************************)
\* the characters str.strip() removes
Whitespace == {" ", "\t", "\n", "\r"}

RECURSIVE LStrip(_)
LStrip(s) ==
    IF s # <<>> /\ Head(s) \in Whitespace THEN LStrip(Tail(s)) ELSE s

RECURSIVE RStrip(_)
RStrip(s) ==
    IF s # <<>> /\ s[Len(s)] \in Whitespace
    THEN RStrip(SubSeq(s, 1, Len(s) - 1)) ELSE s

\* str.strip()
Strip(s) == RStrip(LStrip(s))

\* s[start:-drop], for drop > 0
Slice(s, start, drop) ==
    IF start + 1 > Len(s) - drop THEN <<>>
    ELSE SubSeq(s, start + 1, Len(s) - drop)

\* s[start:]
SliceFrom(s, start) ==
    IF start + 1 > Len(s) THEN <<>> ELSE SubSeq(s, start + 1, Len(s))

\* the backquote character of a Markdown fence; a string of this notation
\* cannot hold it, so the model writes it as an apostrophe
Backquote == "'"
Fence == <<Backquote, Backquote, Backquote>>
TaggedFence == Fence \o <<"j", "s", "o", "n">>
LF == <<"\n">>
CR == <<"\r">>

\* .replace('\r\n', '\n').replace('\r', '\n').strip()
normalized_text(json_string) ==
    Strip(Replace(Replace(json_string, CR \o LF, LF), CR, LF))

\* the bare shapes tested before the tagged ones
complete_fence_pair_bare_first(text) ==
    IF StartsWith(text, Fence \o LF) /\ EndsWith(text, LF \o Fence)
    THEN Some(Strip(Slice(text, 4, 4)))
    ELSE IF StartsWith(text, Fence) /\ EndsWith(text, Fence)
    THEN Some(Strip(Slice(text, 3, 3)))
    ELSE IF StartsWith(text, TaggedFence \o LF) /\ EndsWith(text, LF \o Fence)
    THEN Some(Strip(Slice(text, 7, 4)))
    ELSE IF StartsWith(text, TaggedFence) /\ EndsWith(text, Fence)
    THEN Some(Strip(Slice(text, 7, 3)))
    ELSE None

\* the four complete fence shapes, in the order the code tests them: Some of
\* what is returned, or None when no shape matches
complete_fence_pair(text) ==
    IF StartsWith(text, TaggedFence \o LF) /\ EndsWith(text, LF \o Fence)
    THEN Some(Strip(Slice(text, 7, 4)))
    ELSE IF StartsWith(text, TaggedFence) /\ EndsWith(text, Fence)
    THEN Some(Strip(Slice(text, 7, 3)))
    ELSE IF StartsWith(text, Fence \o LF) /\ EndsWith(text, LF \o Fence)
    THEN Some(Strip(Slice(text, 4, 4)))
    ELSE IF StartsWith(text, Fence) /\ EndsWith(text, Fence)
    THEN Some(Strip(Slice(text, 3, 3)))
    ELSE None

\* the bare prefixes tested before the tagged ones
prefix_stripped_bare_first(text) ==
    IF StartsWith(text, Fence \o LF) THEN SliceFrom(text, 4)
    ELSE IF StartsWith(text, Fence) THEN SliceFrom(text, 3)
    ELSE IF StartsWith(text, TaggedFence \o LF) THEN SliceFrom(text, 7)
    ELSE IF StartsWith(text, TaggedFence) THEN SliceFrom(text, 7)
    ELSE text

\* a single backquote taken for an opening fence
prefix_stripped_any_backquote(text) ==
    IF StartsWith(text, <<Backquote>>) THEN SliceFrom(text, 1) ELSE text

\* without a complete pair, a known opening prefix is cut off
prefix_stripped(text) ==
    IF StartsWith(text, TaggedFence \o LF) THEN SliceFrom(text, 7)
    ELSE IF StartsWith(text, TaggedFence) THEN SliceFrom(text, 7)
    ELSE IF StartsWith(text, Fence \o LF) THEN SliceFrom(text, 4)
    ELSE IF StartsWith(text, Fence) THEN SliceFrom(text, 3)
    ELSE text

\* str(None), the text a missing None test would work on
StrOfNone == <<"N", "o", "n", "e">>

\* the function without its test for None
strip_markdown_json_of_str(json_string) ==
    LET text == normalized_text(IF json_string = None THEN StrOfNone
                                ELSE json_string[1])
        pair == complete_fence_pair(text)
    IN  IF pair # None THEN pair[1] ELSE Strip(prefix_stripped(text))

\* json_string is None or Some(text)
strip_markdown_json(json_string) ==
    IF json_string = None THEN <<>>
    ELSE LET text == normalized_text(json_string[1])
             pair == complete_fence_pair(text)
         IN  IF pair # None THEN pair[1] ELSE Strip(prefix_stripped(text))

\* the answers of the backend the model ranges over: indentation, an opening
\* fence, a line break, a body, a line break, a closing fence, and a line
\* break or a remark behind it
Leads == {<<>>, <<" ">>}
Opens == {<<>>, Fence, TaggedFence}
Breaks == {<<>>, LF, CR \o LF, CR}
BodyChars == {"x", Backquote, " "}
Closes == {<<>>, Fence}
Trails == {<<>>, LF, <<"x">>}
BackendAnswers ==
    {None} \cup
    { Some(l \o o \o b1 \o body \o b2 \o c \o t) :
        l \in Leads, o \in Opens, b1 \in Breaks,
        body \in SeqsUpTo(BodyChars, MaxBody),
        b2 \in Breaks, c \in Closes, t \in Trails }

InitSanitize ==
    /\ extraction = [f \in Filenames |-> Extraction("not_json", JsonArray, <<>>)]
    /\ templates = [f \in Filenames |-> None]
    /\ response = Idle
    /\ result_str \in BackendAnswers
    /\ cleaned_result_str = None
    /\ NoComparison

\* the end of rag_pipeline_with_prompt: the answer of the chain is cleaned
rag_pipeline_with_prompt ==
    /\ cleaned_result_str = None
    /\ cleaned_result_str' = Some(strip_markdown_json(result_str))
    /\ UNCHANGED <<extraction, templates, response, result_str, compare_vars, job_vars, store_vars>>

NextSanitize == rag_pipeline_with_prompt

SpecSanitize == InitSanitize /\ [][NextSanitize]_vars

(***************************************************************************)
(* Properties of the substitution engine.                                  *)
(***************************************************************************)
NameA == <<"A">>
NameB == <<"B">>
NameAB == <<"A", "B">>

FillOps ==
    {"generate_filled_contract", "generate_styled_html_document_endpoint",
     "generate_plain_text_contract", "generate_contract_from_template"}

\* the template the answered request was rendered from: the enhanced front end
\* holds the one it extracted, the others read the template file
RenderedTemplate ==
    IF response.op = "generate_contract_from_template"
    THEN extraction[response.filename].json
    ELSE templates[response.filename][1]

\* the name of the i-th pass of the answered request
PassName(i) == response.passes[i].name

\* the replacement text the resolution order of the specification gives name
\* n: the user's value, else the entry's original_value, else the name
Resolved(m, user, n) ==
    IF user[n] # None THEN user[n][1]
    ELSE IF Get(m, n)[1].has_original_value /\ Get(m, n)[1].original_value # None
         THEN Get(m, n)[1].original_value[1]
         ELSE n

FilledOk == response.op = "generate_filled_contract" /\ response.status = "200"

\* C1: generate_filled_contract makes one pass per placeholder name of the
\* stored template, and the text a pass puts in is the user-supplied value when
\* the value set has a non-null entry for the name (an empty string included),
\* else the entry's original_value when that is non-null, else the name itself.
C1_ResolutionOrder ==
    FilledOk =>
        LET m == RenderedTemplate.Placeholders[1]
            user == ParsedValues(response.payload)
        IN  /\ Len(response.passes) = Len(m)
            /\ {PassName(i) : i \in 1..Len(response.passes)} = KeySet(m)
            /\ \A i \in 1..Len(response.passes) :
                  response.passes[i].value = Resolved(m, user, PassName(i))

\* a filled contract where one name got the user's empty string and another,
\* with neither a user value nor an original_value, its own name
C1_Witness ==
    /\ FilledOk
    /\ \E i, j \in 1..Len(response.passes) :
          /\ response.payload.values[PassName(i)] = Some(<<>>)
          /\ response.passes[i].value = <<>>
          /\ response.payload.values[PassName(j)] = None
          /\ Get(RenderedTemplate.Placeholders[1], PassName(j))[1].original_value = None
          /\ response.passes[j].value = PassName(j)

\* p occurs in q and is shorter
IsProperSubstring(p, q) == Len(p) < Len(q) /\ CountOcc(q, p) > 0

\* C2: in every substitution routine, when name p is a proper substring of
\* name q, the pass for q finds and replaces every occurrence of q in the
\* template text: none was consumed before by the pass for p, whatever the
\* insertion order.
C2_LongerNameIntact ==
    response.op \in FillOps /\ response.filled # None =>
        \A i, j \in 1..Len(response.passes) :
            IsProperSubstring(PassName(i), PassName(j)) =>
                response.passes[j].hits
                    = CountOcc(RenderedTemplate.Template[1], PassName(j))

\* C3: in generate_filled_contract and generate_styled_html_document_endpoint
\* the passes run in descending order of name length: a pass that runs before
\* another has a name at least as long.
C3_PassesDescending ==
    response.op \in {"generate_filled_contract",
                     "generate_styled_html_document_endpoint"} =>
        \A i, j \in 1..Len(response.passes) :
            i < j => Len(PassName(i)) >= Len(PassName(j))

\* the styled endpoint filled a template whose Placeholders list A before AB,
\* and ran the pass for AB first
C3_Witness ==
    /\ response.op = "generate_styled_html_document_endpoint"
    /\ response.filled # None
    /\ Keys(RenderedTemplate.Placeholders[1]) = <<NameA, NameAB>>
    /\ Len(response.passes) = 2
    /\ PassName(1) = NameAB
    /\ PassName(2) = NameA

\* every token of segs replaced at once by its resolved value, static prose
\* and tokens without an entry left as they are
RECURSIVE Simultaneous(_, _, _)
Simultaneous(segs, m, user) ==
    IF segs = <<>> THEN <<>>
    ELSE (IF Head(segs).token /\ Head(segs).text \in KeySet(m)
          THEN Resolved(m, user, Head(segs).text)
          ELSE Head(segs).text)
            \o Simultaneous(Tail(segs), m, user)

\* the static prose shares no character with a placeholder name of m
ProseSpellsNoName(segs, m) ==
    \A i \in 1..Len(segs) :
        ~segs[i].token => \A n \in KeySet(m) : CountOcc(n, segs[i].text) = 0

\* C4: the output of generate_filled_contract is the template with every
\* token occurrence replaced simultaneously by its resolved value: no text put
\* in by an earlier pass is altered by a later one.  (Stated for templates
\* whose prose spells no name; C5 is about the others.)
C4_SinglePassSufficient ==
    /\ FilledOk
    /\ ProseSpellsNoName(extraction[response.filename].segs,
                         RenderedTemplate.Placeholders[1])
    => response.body[1]
            = Simultaneous(extraction[response.filename].segs,
                           RenderedTemplate.Placeholders[1],
                           ParsedValues(response.payload))

\* out is segs with every token replaced by some text and every character of
\* static prose kept, in order
RECURSIVE StaticPreserved(_, _)
StaticPreserved(segs, out) ==
    IF segs = <<>> THEN out = <<>>
    ELSE IF Head(segs).token
         THEN \E k \in 0..Len(out) :
                 StaticPreserved(Tail(segs), SubSeq(out, k + 1, Len(out)))
         ELSE /\ StartsWith(out, Head(segs).text)
              /\ StaticPreserved(Tail(segs),
                                 SubSeq(out, Len(Head(segs).text) + 1, Len(out)))

\* C5: generate_filled_contract keeps every character of static prose,
\* unchanged and in order, also when the prose spells a placeholder name.
C5_StaticTextPreserved ==
    FilledOk => StaticPreserved(extraction[response.filename].segs, response.body[1])

\* the mappings with the entries of m in another insertion order
Reorderings(m) ==
    {p \in PlaceholderMappings :
        Len(p) = Len(m) /\ {p[i] : i \in 1..Len(p)} = {m[i] : i \in 1..Len(m)}}

\* C6: a template with the same text and the same Placeholders entries in any
\* other insertion order renders to the same output for the same value set.
C6_OrderIndependent ==
    FilledOk =>
        \A p \in Reorderings(RenderedTemplate.Placeholders[1]) :
            final_text(RenderedTemplate.Template[1], p, ParsedValues(response.payload))
                = response.body[1]

\* C7: a substitution routine given a template with a non-empty text and a
\* Placeholders mapping, and any value set, produces the filled text; missing
\* values never make it fail.
C7_NeverFailsOnMissingValues ==
    /\ response.op \in FillOps
    /\ response.payload.kind \in {"dict", "blank"}
    /\ response.op # "generate_contract_from_template"
           => templates[response.filename] # None
    /\ UsableTemplate(RenderedTemplate)
    => response.filled # None

GenerationOps ==
    {"generate_filled_contract", "generate_styled_html_document_endpoint"}

\* C9: a call of generate_filled_contract or of
\* generate_styled_html_document_endpoint, whether it succeeds or fails, leaves
\* every stored template as it was.
C9_TemplateNeverMutated ==
    [][response.op = "none" /\ response'.op \in GenerationOps
            => templates' = templates]_vars

\* the styled endpoint filled a stored template and then failed in styling
C9_Witness ==
    /\ response.op = "generate_styled_html_document_endpoint"
    /\ response.status = "500"
    /\ response.filled # None
    /\ templates[response.filename] # None

(***************************************************************************)
(* Properties of the sanitiser.                                            *)
(***************************************************************************)
\* the text between the opening fence (with its tag, when it has one) and
\* the closing fence
EnclosedBody(text) ==
    IF StartsWith(text, TaggedFence)
    THEN Slice(text, Len(TaggedFence), Len(Fence))
    ELSE Slice(text, Len(Fence), Len(Fence))

\* text opens with a fence and closes with another one
IsFenced(text) ==
    StartsWith(text, Fence) /\ EndsWith(text, Fence) /\ Len(text) >= 2 * Len(Fence)

\* C10: when the normalised, trimmed answer begins and ends with a fence
\* pair, strip_markdown_json returns the enclosed body trimmed of surrounding
\* whitespace, with or without line breaks inside the fences; the tag "json"
\* of a tagged fence belongs to the fence and is never left in the output.
C10_CompleteFencePair ==
    result_str # None /\ cleaned_result_str # None =>
        LET text == normalized_text(result_str[1])
        IN  IsFenced(text) => cleaned_result_str[1] = Strip(EnclosedBody(text))

C10_Witness ==
    /\ result_str # None
    /\ StartsWith(normalized_text(result_str[1]), TaggedFence \o LF)
    /\ EndsWith(normalized_text(result_str[1]), LF \o Fence)
    /\ cleaned_result_str = Some(<<"x">>)

\* the normalised, trimmed answer of the backend
AnswerText == normalized_text(result_str[1])

Sanitised == result_str # None /\ cleaned_result_str # None

\* C11: when the answer begins with an opening fence and does not end with a
\* closing fence, strip_markdown_json cuts off the opening fence only (with
\* its tag "json" when it has one) and returns the rest trimmed: nothing is
\* cut from the end.
C11_OpeningFenceOnly ==
    Sanitised /\ StartsWith(AnswerText, Fence) /\ ~EndsWith(AnswerText, Fence) =>
        cleaned_result_str[1]
            = Strip(SliceFrom(AnswerText,
                              IF StartsWith(AnswerText, TaggedFence)
                              THEN Len(TaggedFence) ELSE Len(Fence)))

C11_Witness ==
    /\ Sanitised
    /\ StartsWith(AnswerText, TaggedFence \o LF)
    /\ ~EndsWith(AnswerText, Fence)
    /\ cleaned_result_str[1] = <<"x", "\n", Backquote, Backquote, Backquote, "x">>

\* s with \r\n and a lone \r turned into \n, character by character
RECURSIVE LineBreaksNormalized(_)
LineBreaksNormalized(s) ==
    IF s = <<>> THEN <<>>
    ELSE IF Head(s) = "\r"
         THEN IF Len(s) >= 2 /\ s[2] = "\n"
              THEN LineBreaksNormalized(Tail(s))
              ELSE LF \o LineBreaksNormalized(Tail(s))
         ELSE <<Head(s)>> \o LineBreaksNormalized(Tail(s))

FenceFree(s) == CountOcc(s, Fence) = 0

\* C12 as stated: for an answer s without a fence marker, the result is s
\* with leading and trailing whitespace removed, and sanitising the result
\* again returns it unchanged.
C12_FenceFreeIsStrip ==
    Sanitised /\ FenceFree(result_str[1]) =>
        /\ cleaned_result_str[1] = Strip(result_str[1])
        /\ strip_markdown_json(cleaned_result_str) = cleaned_result_str[1]

\* C12, amended: for an answer s without a fence marker, the result is s with
\* its line breaks normalised to \n and then leading and trailing whitespace
\* removed, and sanitising the result again returns it unchanged.
C12_FenceFreeIsNormalizedStrip ==
    Sanitised /\ FenceFree(result_str[1]) =>
        /\ cleaned_result_str[1] = Strip(LineBreaksNormalized(result_str[1]))
        /\ strip_markdown_json(cleaned_result_str) = cleaned_result_str[1]

C12_Witness ==
    /\ result_str = Some(<<" ", Backquote, "x", "\r", "x">>)
    /\ cleaned_result_str = Some(<<Backquote, "x", "\n", "x">>)

\* C13: strip_markdown_json is idempotent on every answer, nested or repeated
\* fences included: sanitising the result again returns it unchanged.
C13_Idempotent ==
    cleaned_result_str # None =>
        strip_markdown_json(cleaned_result_str) = cleaned_result_str[1]

\* C14: strip_markdown_json returns the empty string for an absent (None) and
\* for an empty answer.
C14_AbsentOrEmpty ==
    cleaned_result_str # None /\ (result_str = None \/ result_str = Some(<<>>)) =>
        cleaned_result_str[1] = <<>>

C14_Witness == result_str = None /\ cleaned_result_str = Some(<<>>)

(***************************************************************************)
(* Properties of template construction.                                    *)
(***************************************************************************)
\* a JSON object with a Template string and a Placeholders mapping
WellFormedTemplate(template_data) ==
    /\ template_data.isobject
    /\ template_data.Template # None
    /\ template_data.Placeholders # None

\* C15: a template record is persisted only for a well-formed object with a
\* Template string and a Placeholders mapping; for every other extraction
\* response template construction fails and persists nothing.
C15_OnlyWellFormedPersisted ==
    \A f \in Filenames :
        templates[f] # None => WellFormedTemplate(templates[f][1])

(***************************************************************************)
(* contract_compare.py and contract_compare_ui.py: the differ and the      *)
(* report renderer.  The texts of a record are strings of the model.       *)
(***************************************************************************)
\* the documents compared are labelled by position
contract_labels == <<"A", "B">>

\* str.lower() on the texts of the model
Lower(s) ==
    CASE s = "Not Found" -> "not found"
      [] s = "N/A" -> "n/a"
      [] s = "Not found in any contract." -> "not found in any contract."
      [] s = "Terms differ" -> "terms differ"
      [] OTHER -> s

Opt(S) == {None} \cup {Some(x) : x \in S}

\* what a record may say of one document, and of the difference
DetailTexts == {"Not Found", "30 days"}
AnalysisTexts == {"Not found in any contract.", "N/A", "Terms differ"}

\* one JSON object of the answer: a key that is missing is None;
\* details[i] is the value of contract_<letter of label i>_detail
Item(c, d, a) == [clause_category |-> c, details |-> d, analysis_of_difference |-> a]

ItemsWith(categories) ==
    { Item(c, d, a) : c \in categories,
                      d \in [1..Len(contract_labels) -> Opt(DetailTexts)],
                      a \in Opt(AnalysisTexts) }

DifferenceItems == ItemsWith({Some("Term")})
ObjectItems == ItemsWith({None, Some("Term")})

Contents ==
    { Content("empty", <<>>), Content("invalid", <<>>), Content("scalar", <<>>) }
        \cup { Content("array", l) : l \in SeqsUpTo(DifferenceItems, MaxRecords) }
        \cup { Content("object", <<o>>) : o \in ObjectItems }

\* no fence, a fence pair tagged json, a bare fence pair
Wrappers == {"none", "tagged", "bare"}

LlmResponses ==
    { LlmResponse(o, "none", Content("empty", <<>>)) : o \in {"no_api_key", "raises"} }
        \cup { LlmResponse("text", w, c) : w \in Wrappers, c \in Contents }

\* the answer with its fence cut off: an opening fence is cut only when it
\* is tagged json, a closing fence always, so what was in a bare fence pair
\* keeps its opening fence and is no JSON
llm_output_text(r) ==
    IF r.wrapper = "bare" THEN Content("invalid", <<>>) ELSE r.content

\* a single object is taken for unrecognised data
comparison_data_without_wrapping(r) ==
    IF r.outcome # "text" THEN NoValidData
    ELSE LET c == llm_output_text(r)
         IN  CASE c.kind = "empty" -> ListOf(<<>>)
               [] c.kind = "array" -> ListOf(c.items)
               [] OTHER -> NoValidData

\* what compare_contracts_with_llm returns for an answer of the backend
comparison_data(r) ==
    IF r.outcome # "text" THEN NoValidData
    ELSE LET c == llm_output_text(r)
         IN  CASE c.kind = "empty" -> ListOf(<<>>)
               [] c.kind = "invalid" -> NoValidData
               [] c.kind = "array" -> ListOf(c.items)
               [] c.kind = "object" ->
                      IF c.items[1].clause_category # None
                      THEN ListOf(<<c.items[1]>>) ELSE NoValidData
               [] OTHER -> NoValidData

\* item.get(key, "N/A")
GetOrNA(v) == IF v = None THEN "N/A" ELSE v[1]

not_found_phrases == {"not specified", "not found", "n/a"}

all_not_found(item) ==
    \A i \in 1..Len(contract_labels) :
        Lower(GetOrNA(item.details[i])) \in not_found_phrases

skip_row(item) ==
    LET analysis_lower == Lower(GetOrNA(item.analysis_of_difference))
    IN  \/ analysis_lower = "not found in any contract."
        \/ all_not_found(item) /\ analysis_lower \in not_found_phrases

\* a table row; index is the position of its record in comparison_data
Row(index, item) ==
    [index |-> index,
     category |-> GetOrNA(item.clause_category),
     contract_details |-> [i \in 1..Len(contract_labels) |-> GetOrNA(item.details[i])],
     analysis |-> GetOrNA(item.analysis_of_difference)]

RECURSIVE report_rows(_, _)
report_rows(comparison_data_items, index) ==
    IF index > Len(comparison_data_items) THEN <<>>
    ELSE LET item == comparison_data_items[index]
             rest == report_rows(comparison_data_items, index + 1)
         IN  IF skip_row(item) THEN rest ELSE <<Row(index, item)>> \o rest

NoDataNotice == "No comparison data was generated."
NoRowsNotice == "No significant differences were identified."

\* the report of generate_html_report and generate_html_report_content
html_report(by, results) ==
    IF results.kind = "none" \/ results.items = <<>>
    THEN Report(by, NoDataNotice, <<>>)
    ELSE LET rows == report_rows(results.items, 1)
         IN  Report(by, IF rows = <<>> THEN NoRowsNotice ELSE "none", rows)

\* the Streamlit wrapper of compare_contracts_with_llm
compare_contracts_with_llm_streamlit(result) ==
    IF result.kind = "none" THEN NoValidData
    ELSE IF result.items = <<>> THEN ListOf(<<>>)
    ELSE result

InitCompare ==
    /\ NoTemplates
    /\ llm_response \in LlmResponses
    /\ comparison_results = Pending
    /\ report = NoReport
    /\ NoJobs

compare_contracts_with_llm ==
    /\ llm_response.outcome # "none"
    /\ comparison_results = Pending
    /\ comparison_results' = comparison_data(llm_response)
    /\ UNCHANGED <<llm_response, report, template_vars, job_vars, store_vars>>

\* the command line: the report is written for every outcome
generate_html_report ==
    /\ comparison_results # Pending
    /\ report = NoReport
    /\ report' = html_report("generate_html_report", comparison_results)
    /\ UNCHANGED <<llm_response, comparison_results, template_vars, job_vars, store_vars>>

\* the Streamlit page: results are displayed unless they are None
generate_html_report_content ==
    /\ comparison_results # Pending
    /\ report = NoReport
    /\ compare_contracts_with_llm_streamlit(comparison_results).kind = "list"
    /\ report' = html_report("generate_html_report_content",
                             compare_contracts_with_llm_streamlit(comparison_results))
    /\ UNCHANGED <<llm_response, comparison_results, template_vars, job_vars, store_vars>>

NextCompare ==
    \/ compare_contracts_with_llm
    \/ generate_html_report
    \/ generate_html_report_content

SpecCompare == InitCompare /\ [][NextCompare]_vars

(***************************************************************************)
(* Properties of the differ and the report renderer.                       *)
(***************************************************************************)
\* a detail that is missing or is an absence sentinel, in any case of letters
IsAbsent(v) ==
    v = None \/ Lower(v[1]) \in {"not specified", "not found", "n/a"}

AllAbsent(item) == \A i \in 1..Len(contract_labels) : IsAbsent(item.details[i])

\* a report was rendered from a list of records
Rendered == report.by # "none" /\ comparison_results.kind = "list"

HasRow(index) == \E k \in 1..Len(report.rows) : report.rows[k].index = index

\* C16: a record with at least one detail that is not an absence sentinel is
\* a row of the report, whatever its analysis text.
C16_PresentDetailRetained ==
    Rendered =>
        \A i \in 1..Len(comparison_results.items) :
            ~AllAbsent(comparison_results.items[i]) => HasRow(i)

\* C17: no record whose details are all absence sentinels or missing is a row
\* of the report, whatever its analysis text.
C17_AllAbsentDiscarded ==
    Rendered =>
        \A i \in 1..Len(comparison_results.items) :
            AllAbsent(comparison_results.items[i]) => ~HasRow(i)

Compared == llm_response.outcome # "none" /\ comparison_results # Pending

\* the answer is text that parses to an array without elements
IsEmptyArray(r) ==
    /\ r.outcome = "text"
    /\ llm_output_text(r) = Content("array", <<>>)

\* the answer is unusable: no text, no JSON, or JSON that is neither an array
\* nor an object with the key clause_category
IsUnusable(r) ==
    \/ r.outcome # "text"
    \/ llm_output_text(r).kind \in {"empty", "invalid", "scalar"}
    \/ /\ llm_output_text(r).kind = "object"
       /\ llm_output_text(r).items[1].clause_category = None

\* C18: compare_contracts_with_llm returns the empty list only for an answer
\* that is a JSON array without elements; an answer that is empty, does not
\* parse or has another shape gives None, never the empty list.
C18_EmptyListOnlyForEmptyArray ==
    Compared =>
        /\ comparison_results = ListOf(<<>>) => IsEmptyArray(llm_response)
        /\ IsUnusable(llm_response) => comparison_results = NoValidData

\* C19: the report rendered for the empty list of a successful comparison
\* differs from the report the same renderer gives for the no-valid-data
\* outcome.
C19_NoDifferencesNoticeDistinct ==
    report.by # "none" /\ comparison_results = ListOf(<<>>) =>
        report # html_report(report.by, NoValidData)

\* C20: an answer that parses to one object with the key clause_category is
\* returned as the list of that object alone, and an answer that parses to an
\* array is returned with the same elements in the same order.
C20_ObjectWrappedArrayUnchanged ==
    Compared /\ llm_response.outcome = "text" /\ llm_response.wrapper # "bare" =>
        LET c == llm_response.content
        IN  /\ c.kind = "object" /\ c.items[1].clause_category # None =>
                  comparison_results = ListOf(<<c.items[1]>>)
            /\ c.kind = "array" => comparison_results = ListOf(c.items)

C20_Witness ==
    /\ llm_response.outcome = "text"
    /\ llm_response.content.kind = "object"
    /\ comparison_results.kind = "list"
    /\ Len(comparison_results.items) = 1
    /\ comparison_results.items[1] = llm_response.content.items[1]
(***************************************************************************)
(* Comparison jobs: compare_main.py, and the runs of contract_compare.py   *)
(* and contract_compare_ui.py                                              *)
(***************************************************************************)

\* the documents a request carries beyond its padding
MaxUploads == 2

\* compare_contracts_with_llm: the character budget of one document
max_len == 30000

\* the fewest and the most files a comparison takes
min_files == 2
max_files == 10

\* chr(65 + k)
Letters == <<"A", "B", "C", "D", "E", "F", "G", "H", "I", "J", "K", "L">>
chr65(k) == Letters[k + 1]

\* a text: the first len characters of what document src holds; blank when
\* it is whitespace only
Text(src, len, blank) == [src |-> src, len |-> len, blank |-> blank]

\* a submitted file: whether its name ends in .pdf, and what extraction
\* gives for it at position i of the request (None when it raises or
\* returns None)
Doc(pdf, len, blank) == [pdf |-> pdf, len |-> len, blank |-> blank]
Ordinary == Doc(TRUE, Some(5), FALSE)
Docs ==
    {Ordinary,
     Doc(TRUE, None, FALSE),                 \* cannot be read
     Doc(FALSE, None, FALSE),                \* not a PDF, and cannot be read
     Doc(TRUE, Some(0), FALSE),              \* no text at all
     Doc(TRUE, Some(3), TRUE),               \* whitespace only
     Doc(TRUE, Some(max_len), FALSE),
     Doc(TRUE, Some(max_len + 1), FALSE)}

\* requests: some documents of any kind, then ordinary documents up to the
\* sizes around the limits
Requests ==
    { head \o [i \in 1..n |-> Ordinary] :
        head \in SeqsUpTo(Docs, MaxUploads),
        n \in {0, max_files - 2, max_files - 1} }

\* extract_text_from_pdf / extract_text_from_pdf_bytes
extract_text_from_pdf(files, i) ==
    IF files[i].len = None THEN None
    ELSE Some(Text(i, files[i].len[1], files[i].blank))

\* compare_contracts: if contract_text and contract_text.strip()
api_usable(t) == t # None /\ t[1].len > 0 /\ ~t[1].blank
\* contract_compare.py and contract_compare_ui.py: if contract_text
cli_usable(t) == t # None /\ t[1].len > 0

\* the extraction loops: the texts kept, in order, and the positions
\* (from 0) of the documents that failed
contract_texts_api(files) ==
    LET kept == SelectSeq([i \in 1..Len(files) |-> i],
                          LAMBDA i : api_usable(extract_text_from_pdf(files, i)))
    IN  [k \in 1..Len(kept) |-> extract_text_from_pdf(files, kept[k])[1]]
\* only the first document that failed is told
failed_extractions_first_only(files) ==
    LET lost == SelectSeq([i \in 1..Len(files) |-> i],
                          LAMBDA i : ~api_usable(extract_text_from_pdf(files, i)))
    IN  IF lost = <<>> THEN <<>> ELSE <<lost[1] - 1>>

failed_extractions_api(files) ==
    LET lost == SelectSeq([i \in 1..Len(files) |-> i],
                          LAMBDA i : ~api_usable(extract_text_from_pdf(files, i)))
    IN  [k \in 1..Len(lost) |-> lost[k] - 1]
contract_texts_cli(files) ==
    LET kept == SelectSeq([i \in 1..Len(files) |-> i],
                          LAMBDA i : cli_usable(extract_text_from_pdf(files, i)))
    IN  [k \in 1..Len(kept) |-> extract_text_from_pdf(files, kept[k])[1]]
failed_extractions_cli(files) ==
    LET lost == SelectSeq([i \in 1..Len(files) |-> i],
                          LAMBDA i : ~cli_usable(extract_text_from_pdf(files, i)))
    IN  [k \in 1..Len(lost) |-> lost[k] - 1]

\* every text keeps the letter of the place its file had in the request
labels_with_gaps(texts) == [k \in 1..Len(texts) |-> chr65(texts[k].src - 1)]

\* contract_labels.append(chr(65 + len(contract_texts) - 1))
labels_by_position(texts) == [k \in 1..Len(texts) |-> chr65(k - 1)]
\* contract_labels.append(chr(65 + i)) of the command line's loop
labels_by_file(texts) == [k \in 1..Len(texts) |-> chr65(texts[k].src - 1)]

\* every text is sent whole
untruncated(contract_text) == contract_text

\* contract_text[:max_len] when it is longer
truncated(contract_text) ==
    IF contract_text.len > max_len
    THEN [contract_text EXCEPT !.len = max_len]
    ELSE contract_text

\* chain_input: the prompt variable contract_<letter>_text of each position
\* and the text under it
chain_input_of(texts) ==
    [k \in 1..Len(texts) |-> [variable |-> chr65(k - 1), text |-> truncated(texts[k])]]

\* generate_html_report: the letter in detail_key for position i (from 0)
detail_key(i) == chr65(i)

\* compare_contracts_with_llm(contract_texts, contract_labels) with the
\* backend answering r: what was sent, and what it returns
llm_call(texts, labels, r) ==
    IF r.outcome = "no_api_key"
    THEN [run |-> Run(0, texts, FALSE, <<>>, labels, r), data |-> NoValidData]
    ELSE [run |-> Run(0, texts, TRUE, chain_input_of(texts), labels, r),
          data |-> comparison_data(r)]

\* the answers a job may get
JobAnswers ==
    { LlmResponse(o, "none", Content("empty", <<>>)) : o \in {"no_api_key", "raises"} }
        \cup { LlmResponse("text", "none", Content("invalid", <<>>)),
               LlmResponse("text", "none", Content("array", <<>>)),
               LlmResponse("text", "tagged",
                           Content("array",
                                   <<Item(Some("Term"), <<Some("30 days"), Some("Not Found")>>,
                                          Some("Terms differ"))>>)),
               LlmResponse("text", "none",
                           Content("object",
                                   <<Item(None, <<Some("30 days"), Some("Not Found")>>,
                                          Some("Terms differ"))>>)) }

\* a record of job_storage
Job(status, message, total, processed, data, report_path) ==
    [status |-> status, message |-> message, total_contracts |-> total,
     contracts_processed |-> processed, comparison_data |-> data,
     report_path |-> report_path]

\* no job is stored, no request answered, and no template file written
InitJob ==
    /\ NoTemplates
    /\ llm_response = NoRequest
    /\ comparison_results = Pending
    /\ report = NoReport
    /\ NoJobs

\* POST /compare-contracts
compare_contracts ==
    /\ job_result = NoJobResult
    /\ \E job_id \in JobIds : job_storage[job_id] = None    \* uuid4 is fresh
    /\ \E files \in Requests, return_html \in BOOLEAN, r \in JobAnswers,
          fault \in {"none", "mkdtemp", "save", "llm", "report"} :
           /\ LET op == "compare_contracts" IN
              IF Len(files) < min_files
              THEN /\ job_result' = JobResult(op, "400", None, NoRun, Message("too_few", <<>>), files)
                   /\ UNCHANGED <<job_storage, report>>
              ELSE IF Len(files) > max_files
              THEN /\ job_result' = JobResult(op, "400", None, NoRun, Message("too_many", <<>>), files)
                   /\ UNCHANGED <<job_storage, report>>
              ELSE IF \E i \in 1..Len(files) : ~files[i].pdf
              THEN /\ job_result' = JobResult(op, "400", None, NoRun, Message("not_pdf", <<>>), files)
                   /\ UNCHANGED <<job_storage, report>>
              ELSE \E job_id \in JobIds :
                   /\ job_storage[job_id] = None
                   /\ LET total == Len(files)
                          texts == contract_texts_api(files)
                          labels == labels_by_position(texts)
                          failed == failed_extractions_api(files)
                          processing == Job("processing", Message("processing", <<>>),
                                            total, 0, NoValidData, FALSE)
                          extracted == [processing EXCEPT !.contracts_processed = Len(texts)]
                          call == llm_call(texts, labels, r)
                          ran == [call.run EXCEPT !.saved = total]
                          completed == Message("completed", <<>>)
                          set(job) == job_storage' = [job_storage EXCEPT ![job_id] = Some(job)]
                          end(status, run, message) ==
                              /\ job_result' = JobResult(op, status, Some(job_id), run, message, files)
                              /\ report' = IF status = "200" /\ return_html
                                           THEN html_report("generate_html_report", call.data)
                                           ELSE report
                      IN  CASE fault = "mkdtemp" ->
                                 /\ set([processing EXCEPT !.status = "failed",
                                                           !.message = Message("unexpected", <<>>)])
                                 /\ end("500", NoRun, Message("unexpected", <<>>))
                            [] fault = "save" ->
                                 /\ set(processing)
                                 /\ end("500", NoRun, Message("save_failed", <<>>))
                            [] OTHER ->
                                 IF Len(texts) < 2
                                 THEN /\ set([extracted EXCEPT !.status = "failed",
                                                               !.message = Message("not_enough", failed)])
                                      /\ end("400", Run(total, texts, FALSE, <<>>, labels, NoRequest),
                                             Message("not_enough", failed))
                                 ELSE IF fault = "llm" /\ r.outcome # "no_api_key"
                                 THEN /\ set([extracted EXCEPT !.status = "failed",
                                                               !.message = Message("comparison_failed", <<>>)])
                                      /\ end("500", Run(total, texts, FALSE, <<>>, labels, NoRequest),
                                             Message("comparison_failed", <<>>))
                                 ELSE IF return_html /\ fault = "report"
                                 THEN /\ set([extracted EXCEPT !.status = "failed",
                                                               !.message = Message("report_failed", <<>>),
                                                               !.comparison_data = call.data])
                                      /\ end("500", ran, Message("report_failed", <<>>))
                                 ELSE /\ set([extracted EXCEPT !.status = "completed",
                                                               !.message = completed,
                                                               !.comparison_data = call.data,
                                                               !.report_path = return_html])
                                      /\ end("200", ran, completed)
           /\ UNCHANGED <<template_vars, llm_response, comparison_results, data_response,
                          store_vars>>

\* GET /comparison-data/{job_id}
get_comparison_data(job_id) ==
    /\ data_response = NoDataResponse
    /\ LET answer(status, labels, data) ==
               data_response' = DataResponse(status, Some(job_id), labels, data)
       IN  IF job_storage[job_id] = None
           THEN answer("404", <<>>, NoValidData)
           ELSE LET job_data == job_storage[job_id][1] IN
                IF job_data.status # "completed"
                THEN answer("400", <<>>, NoValidData)
                ELSE IF job_data.comparison_data = NoValidData
                THEN answer("404", <<>>, NoValidData)
                ELSE answer("200",
                            [i \in 1..job_data.total_contracts |-> chr65(i - 1)],
                            job_data.comparison_data)
    /\ UNCHANGED <<template_vars, compare_vars, job_storage, job_result, store_vars>>

\* DELETE /cleanup-job/{job_id}
cleanup_job(job_id) ==
    /\ job_storage[job_id] # None
    /\ job_storage' = [job_storage EXCEPT ![job_id] = None]
    /\ report' = IF job_storage[job_id][1].report_path THEN NoReport ELSE report
    /\ UNCHANGED <<template_vars, llm_response, comparison_results, job_result,
                   data_response, store_vars>>

\* python contract_compare.py pdf_paths...; the command line and the
\* Streamlit page are processes of their own, which neither read nor write
\* job_storage, so their runs are followed while the service holds no job
contract_compare_main ==
    /\ job_result = NoJobResult
    /\ job_storage = [j \in JobIds |-> None]
    /\ \E files \in Requests, r \in JobAnswers :
           /\ LET op == "contract_compare"
                  stop(message) ==
                      /\ job_result' = JobResult(op, "exit 1", None, NoRun, message, files)
                      /\ UNCHANGED report
                  end(status, run, message, data) ==
                      /\ job_result' = JobResult(op, status, None, run, message, files)
                      /\ report' = html_report("generate_html_report", data)
              IN  IF Len(files) < min_files
                  THEN stop(Message("too_few", <<>>))
                  ELSE IF Len(files) > max_files
                  THEN stop(Message("too_many", <<>>))
                  ELSE IF r.outcome = "no_api_key"
                  THEN /\ job_result' = JobResult(op, "exit 0", None, NoRun,
                                                   Message("no_api_key", <<>>), files)
                       /\ UNCHANGED report
                  ELSE LET texts == contract_texts_cli(files)
                           failed == failed_extractions_cli(files)
                       IN  IF Len(texts) >= 2
                           THEN LET call == llm_call(texts, labels_by_position(texts), r)
                                IN  end("exit 0", call.run,
                                        Message(IF call.data = NoValidData
                                                THEN "comparison_failed" ELSE "completed",
                                                failed),
                                        call.data)
                           ELSE end("exit 0", Run(0, texts, FALSE, <<>>, labels_by_file(texts), NoRequest),
                                    Message("not_enough", failed), NoValidData)
           /\ UNCHANGED <<template_vars, llm_response, comparison_results, job_storage,
                          data_response, store_vars>>

\* the Streamlit page: the uploader takes pdf files only, and the button
\* shows for 2 to 10 files and an API key
contract_compare_ui_main ==
    /\ job_result = NoJobResult
    /\ job_storage = [j \in JobIds |-> None]
    /\ \E files \in Requests, r \in JobAnswers :
           /\ \A i \in 1..Len(files) : files[i].pdf
           /\ LET op == "contract_compare_ui"
                  info(message) ==
                      /\ job_result' = JobResult(op, "info", None, NoRun, message, files)
                      /\ UNCHANGED report
                  end(status, run, message, data) ==
                      /\ job_result' = JobResult(op, status, None, run, message, files)
                      /\ report' = IF data.kind = "list"
                                   THEN html_report("generate_html_report_content", data)
                                   ELSE report
              IN  IF Len(files) < min_files
                  THEN info(Message("too_few", <<>>))
                  ELSE IF Len(files) > max_files
                  THEN info(Message("too_many", <<>>))
                  ELSE IF r.outcome = "no_api_key"
                  THEN info(Message("no_api_key", <<>>))
                  ELSE LET texts == contract_texts_cli(files)
                           failed == failed_extractions_cli(files)
                       IN  IF Len(texts) >= 2
                           THEN LET call == llm_call(texts, labels_by_position(texts), r)
                                    data == compare_contracts_with_llm_streamlit(call.data)
                                IN  end("shown", call.run,
                                        Message(IF data = NoValidData
                                                THEN "comparison_failed" ELSE "completed",
                                                failed),
                                        data)
                           ELSE end("shown", Run(0, texts, FALSE, <<>>, labels_by_position(texts), NoRequest),
                                    Message("not_enough", failed), NoValidData)
           /\ UNCHANGED <<template_vars, llm_response, comparison_results, job_storage,
                          data_response, store_vars>>

\* the caller has its answers
JobDone ==
    /\ job_result # NoJobResult
    /\ job_result' = NoJobResult
    /\ data_response' = NoDataResponse
    /\ UNCHANGED <<template_vars, compare_vars, job_storage, store_vars>>

NextJob ==
    \/ compare_contracts
    \/ \E job_id \in JobIds : get_comparison_data(job_id)
    \/ \E job_id \in JobIds : cleanup_job(job_id)
    \/ contract_compare_main
    \/ contract_compare_ui_main
    \/ JobDone

SpecJob == InitJob /\ [][NextJob]_vars

(***************************************************************************)
(* The template file under processes that share it: main.py writes it in   *)
(* process_document_to_template and reads it in generate_filled_contract,  *)
(* contract_generator_ui.py writes it after Extract Placeholders and reads *)
(* it in Load Existing Template; none of them takes a lock                 *)
(***************************************************************************)

\* with open(output_json_path, 'w') as f_json: the file is created or
\* truncated
open_for_write(p, json_data) ==
    /\ pc[p] = AtRest
    /\ pc' = [pc EXCEPT ![p] = At("writing", json_data)]
    /\ template_file' = TemplateFile("truncated", template_file.writers \cup {p})
    /\ UNCHANGED <<template_vars, compare_vars, job_vars, loaded>>

\* json.dump(json_data, f_json) and the end of the with block; over what
\* another writer has put there since the truncation the bytes of the two
\* may mix
json_dump(p) ==
    /\ pc[p].at = "writing"
    /\ pc' = [pc EXCEPT ![p] = AtRest]
    /\ \E content \in IF template_file.content = "truncated"
                      THEN {pc[p].data}
                      ELSE {pc[p].data, "garbled"} :
           template_file' = TemplateFile(content, template_file.writers \ {p})
    /\ UNCHANGED <<template_vars, compare_vars, job_vars, loaded>>

\* if not os.path.exists(path): 404
path_exists(p) ==
    /\ pc[p] = AtRest
    /\ IF template_file.content = "absent"
       THEN /\ loaded' = [loaded EXCEPT ![p] = "404"]
            /\ UNCHANGED pc
       ELSE /\ pc' = [pc EXCEPT ![p] = At("checked", "none")]
            /\ UNCHANGED loaded
    /\ UNCHANGED <<template_vars, compare_vars, job_vars, template_file>>

\* with open(path, 'r') as file: template_data = json.load(file); what is
\* no whole JSON document raises, and the service answers 500
json_load(p) ==
    /\ pc[p].at = "checked"
    /\ pc' = [pc EXCEPT ![p] = AtRest]
    /\ loaded' = [loaded EXCEPT ![p] = IF template_file.content \in Versions
                                       THEN template_file.content ELSE "500"]
    /\ UNCHANGED <<template_vars, compare_vars, job_vars, template_file>>

NextStore ==
    \/ \E p \in Procs, json_data \in Versions : open_for_write(p, json_data)
    \/ \E p \in Procs : json_dump(p)
    \/ \E p \in Procs : path_exists(p)
    \/ \E p \in Procs : json_load(p)

SpecStore == InitJob /\ [][NextStore]_vars

\* C25: whatever the interleaving of requests on one source filename, the
\* stored template never has two writers, is never read while it is being
\* written or rewritten, and once written is never changed.
C25_StoredTemplateOnlyRead ==
    [][/\ Cardinality(template_file.writers) <= 1
       /\ \A p \in Procs :
              pc[p].at = "checked" /\ pc'[p].at = "idle"
                  => template_file.writers = {}
       /\ template_file.content \in Versions
              => template_file'.content = template_file.content]_vars

(***************************************************************************)
(* The generation paths side by side                                       *)
(***************************************************************************)

\* the generation paths other than generate_filled_contract
OtherFillOps ==
    {"generate_styled_html_document_endpoint", "generate_plain_text_contract",
     "generate_contract_from_template"}

\* C29: whenever generate_styled_html_document_endpoint, the Streamlit
\* generator or generate_contract_from_template produces a filled text for a
\* template, a Placeholders mapping and the values of a request, that text
\* is the final_text generate_filled_contract computes for the same three.
C29_AllPathsFillAlike ==
    /\ response.op \in OtherFillOps
    /\ response.filled # None
    => response.filled[1] =
           final_text(RenderedTemplate.Template[1],
                      RenderedTemplate.Placeholders[1],
                      ParsedValues(response.payload))

(***************************************************************************)
(* Comparison jobs: how they end                                           *)
(***************************************************************************)

\* the last request was POST /compare-contracts, it created a job, and the
\* job is still stored
JobOfRequest ==
    IF job_result.op = "compare_contracts" /\ job_result.job_id # None
    THEN job_storage[job_result.job_id[1]]
    ELSE None

\* compare_contracts_with_llm had no credentials, met an exception of the
\* backend, or got an answer that is no JSON or no recognised shape
BackendFailed(r) ==
    \/ r.outcome \in {"no_api_key", "raises"}
    \/ /\ r.outcome = "text"
       /\ \/ r.wrapper = "bare"
          \/ r.content.kind = "invalid"
          \/ r.content.kind = "object" /\ r.content.items[1].clause_category = None

\* C21: a job whose backend call raised, returned unusable output or could
\* not be made for want of credentials ends failed with a server error,
\* never completed.
C21_BackendFailureFailsJob ==
    /\ JobOfRequest # None
    /\ BackendFailed(job_result.run.answer)
    => /\ JobOfRequest[1].status = "failed"
       /\ job_result.status = "500"

\* C22: when the handler of POST /compare-contracts has returned or raised,
\* the job it recorded as processing is completed or failed, whatever the
\* exit path.
C22_JobReachesTerminalStatus ==
    JobOfRequest # None => JobOfRequest[1].status \in {"completed", "failed"}

\* the last request or run got as far as extracting the texts
ExtractionRan ==
    job_result.message.kind \in
        {"not_enough", "comparison_failed", "report_failed", "completed"}

\* the positions (from 0) of the submitted documents that gave no text, or
\* an empty one
WithoutText(files) ==
    { i - 1 : i \in { j \in 1..Len(files) :
                        files[j].len = None \/ files[j].len[1] = 0 } }

Range(seq) == { seq[k] : k \in 1..Len(seq) }

\* C23: when fewer than 2 of the submitted documents give a non-empty text,
\* the backend is not called, the run ends as a failure (a failed job in the
\* service), and its message names every document that gave no text.
C23_TooFewTextsFailsTheJob ==
    /\ ExtractionRan
    /\ Len(job_result.files) - Cardinality(WithoutText(job_result.files)) < 2
    => /\ ~job_result.run.called
       /\ job_result.message.kind = "not_enough"
       /\ WithoutText(job_result.files) \subseteq Range(job_result.message.failed)
       /\ JobOfRequest # None => JobOfRequest[1].status = "failed"

\* the service was given a document that cannot be read and one without
\* text, and failed the job naming both
C23_Witness ==
    /\ JobOfRequest # None
    /\ JobOfRequest[1].status = "failed"
    /\ job_result.message = Message("not_enough", <<0, 1>>)
    /\ WithoutText(job_result.files) = {0, 1}
    /\ ~job_result.run.called

\* the documents of the request whose text is neither missing, nor empty,
\* nor whitespace only
WithText(files) ==
    { j \in 1..Len(files) :
        files[j].len # None /\ files[j].len[1] > 0 /\ ~files[j].blank }

\* C24: in every entry point a document whose text is empty or whitespace
\* only is a failed extraction: no such text is sent to the backend, and the
\* backend is called only when 2 documents have other text.
C24_BlankTextIsFailure ==
    ExtractionRan
    => /\ \A k \in 1..Len(job_result.run.chain_input) :
              /\ job_result.run.chain_input[k].text.len > 0
              /\ ~job_result.run.chain_input[k].text.blank
       /\ job_result.run.called => Cardinality(WithText(job_result.files)) >= 2

\* a request the entry points must refuse
Refusable(files) ==
    \/ Len(files) < 2
    \/ Len(files) > 10
    \/ \E i \in 1..Len(files) : ~files[i].pdf

\* C26: a request with fewer than 2 files, more than 10, or a file that is
\* not a PDF is refused with a client error before anything is done: no job
\* is recorded, no file saved, no text extracted, the backend not called.
C26_BadRequestRefusedAtOnce ==
    /\ job_result.op \in {"compare_contracts", "contract_compare"}
    /\ Refusable(job_result.files)
    => /\ job_result.status \in {"400", "exit 1"}
       /\ job_result.job_id = None
       /\ job_result.run = NoRun

\* C27: the documents handed to the differ are labelled by position: there
\* are as many labels as texts, the k-th label (k from 0) is chr(65+k), also
\* when documents before it failed extraction, and the prompt variable and
\* the detail key of position k carry the letter of label k.
C27_LabelsByPosition ==
    job_result.run.called
    => /\ Len(job_result.run.contract_labels) = Len(job_result.run.contract_texts)
       /\ Len(job_result.run.chain_input) = Len(job_result.run.contract_texts)
       /\ \A k \in 1..Len(job_result.run.contract_labels) :
              /\ job_result.run.contract_labels[k] = Letters[k]
              /\ job_result.run.chain_input[k].variable = job_result.run.contract_labels[k]
              /\ job_result.run.chain_input[k].text.src = job_result.run.contract_texts[k].src
              /\ detail_key(k - 1) = job_result.run.contract_labels[k]

\* the service compared the documents left after the first one failed
\* extraction: the second file is document A
C27_Witness ==
    /\ job_result.op = "compare_contracts"
    /\ job_result.run.called
    /\ job_result.run.contract_texts[1].src = 2
    /\ job_result.run.contract_labels[1] = "A"
    /\ Len(job_result.run.contract_labels) = Len(job_result.files) - 1

Min(a, b) == IF a < b THEN a ELSE b

\* C28: every text sent to the backend is the prefix of the text extracted
\* from its document of length min(len(text), 30000): a text of at most
\* 30000 characters goes unchanged, a longer one is cut to exactly 30000,
\* and the documents sent are the documents extracted, in their order.
C28_TruncatedToBudget ==
    job_result.run.called
    => /\ Len(job_result.run.chain_input) = Len(job_result.run.contract_texts)
       /\ \A k \in 1..Len(job_result.run.chain_input) :
              LET sent == job_result.run.chain_input[k].text
                  original == job_result.files[job_result.run.contract_texts[k].src]
              IN  /\ sent.src = job_result.run.contract_texts[k].src
                  /\ sent.len = Min(original.len[1], 30000)
                  /\ sent.blank = original.blank
       /\ \A k \in 1..Len(job_result.run.contract_texts) - 1 :
              job_result.run.contract_texts[k].src < job_result.run.contract_texts[k + 1].src

\* a text of 30001 characters was cut to 30000 and a text of 30000 was sent
\* whole, in one comparison
C28_Witness ==
    /\ job_result.run.called
    /\ \E k \in 1..Len(job_result.run.chain_input) :
           /\ job_result.run.contract_texts[k].len = 30001
           /\ job_result.run.chain_input[k].text.len = 30000
    /\ \E k \in 1..Len(job_result.run.chain_input) :
           /\ job_result.run.contract_texts[k].len = 30000
           /\ job_result.run.chain_input[k].text.len = 30000

\* C30: asked for the data of a completed job, GET /comparison-data answers
\* with comparison data that is not null and with the labels the documents
\* were compared under, one for each document whose text was extracted.
C30_DataOfCompletedJob ==
    [][\A j \in JobIds :
         /\ data_response = NoDataResponse
         /\ data_response'.job_id = Some(j)
         /\ job_storage[j] # None
         /\ job_storage[j][1].status = "completed"
         => /\ data_response'.status = "200"
            /\ data_response'.comparison_data # NoValidData
            /\ data_response'.contract_labels =
                   [k \in 1..job_storage[j][1].contracts_processed |-> Letters[k]]]_vars

====
